---- MODULE Spec2Model ----
(***************************************************************************)
(* Model of assignment_2/data_retrieval.py: build_query (the Lucene query  *)
(* builder) and update_artist_from_mb (the merge of a MusicBrainz record   *)
(* into a local artist dictionary).                                        *)
(*                                                                         *)
(* Python values are records [k |-> kind, v |-> payload]; a Python str is  *)
(* a sequence of one-character strings, so that lower(), startswith(),     *)
(* join() and the f-strings are computed and not assumed.  A dict is a     *)
(* function whose DOMAIN is the set of keys that are present.              *)
(***************************************************************************)
EXTENDS Naturals, Sequences, FiniteSets, TLC

VARIABLES
    artist,     \* the local artist dict
    prev,       \* artist as it was when the last update_artist_from_mb began
    base,       \* artist as it was when the current run of overwrite=False
                \* merges began
    mb,         \* the external record of the last update_artist_from_mb
    overwrite,  \* the overwrite flag of the last update_artist_from_mb
    exc,        \* the exception the last call raised, "none" if it returned
    query,      \* what the last build_query returned
    op,         \* the last call: "init", "build_query" or "merge"
    repeat,     \* the last two merges took the same record with overwrite=False
    calls,      \* calls of update_artist_from_mb so far
    received    \* external keys received so far

vars == <<artist, prev, base, mb, overwrite, exc, query, op, repeat, calls, received>>

(* ------------------------------ bounds --------------------------------- *)
\* most keys of external records received in one run
MaxKeys == 2
\* most entries of a tag-list or alias-list
MaxList == 1
\* most calls of update_artist_from_mb in one run
MaxCalls == 2

(* --------------------------- Python values ----------------------------- *)
None == [k |-> "None", v |-> <<>>]
PyFalse == [k |-> "False", v |-> <<>>]
Str(s) == [k |-> "str", v |-> s]
List(s) == [k |-> "list", v |-> s]
Dict(d) == [k |-> "dict", v |-> d]
EmptyDict == [z \in {} |-> None]

\* bool(x) as Python's `if x:` computes it
Truthy(x) ==
    CASE x.k = "None" -> FALSE
      [] x.k = "False" -> FALSE
      [] x.k = "str" -> x.v # <<>>
      [] x.k = "list" -> x.v # <<>>
      [] x.k = "dict" -> DOMAIN x.v # {}

\* d.get(key): the value, None when the key is missing
Get(d, key) == IF key \in DOMAIN d THEN d[key] ELSE None

\* d.get(key, dflt)
GetOr(d, key, dflt) == IF key \in DOMAIN d THEN d[key] ELSE dflt

\* d[key] = value
Put(d, key, value) ==
    IF key \in DOMAIN d THEN [d EXCEPT ![key] = value] ELSE (key :> value) @@ d

UpperAlpha == <<"A","B","C","D","E","F","G","H","I","J","K","L","M",
                "N","O","P","Q","R","S","T","U","V","W","X","Y","Z">>
LowerAlpha == <<"a","b","c","d","e","f","g","h","i","j","k","l","m",
                "n","o","p","q","r","s","t","u","v","w","x","y","z">>

LowerChar(c) ==
    IF \E i \in 1..Len(UpperAlpha) : UpperAlpha[i] = c
    THEN LowerAlpha[CHOOSE i \in 1..Len(UpperAlpha) : UpperAlpha[i] = c]
    ELSE c

\* str.lower()
Lower(s) == [i \in 1..Len(s) |-> LowerChar(s[i])]

\* str.startswith(p)
StartsWith(s, p) == Len(s) >= Len(p) /\ SubSeq(s, 1, Len(p)) = p

\* sep.join(parts) for a list of str
RECURSIVE Join(_, _)
Join(sep, parts) ==
    IF parts = <<>> THEN <<>>
    ELSE IF Len(parts) = 1 THEN parts[1]
    ELSE parts[1] \o sep \o Join(sep, Tail(parts))

(* ------------------------------ literals ------------------------------- *)
sItalia == <<"I","t","a","l","i","a">>
sIT == <<"I","T">>
sMale == <<"m","a","l","e">>
sFemale == <<"f","e","m","a","l","e">>
sFalse == <<"f","a","l","s","e">>
sAnd == <<" ","A","N","D"," ">>
sCommaSpace == <<",", " ">>
sNamePrefix == <<"n","a","m","e",":","\"">>
sCountryPrefix == <<"c","o","u","n","t","r","y",":","\"">>
sQuote == <<"\"">>
sCountryIT == sCountryPrefix \o sIT \o sQuote

countries_map == (sItalia :> sIT)

(* ----------------------------- build_query ----------------------------- *)
NoQuery == <<"<", "n", "o", "n", "e", ">">>

name_clause(a) ==
    IF Truthy(Get(a, "name"))
    THEN << sNamePrefix \o a["name"].v \o sQuote >>
    ELSE <<>>

\* build_query with the lookup countries_map.get(country, "IT")
build_query_lenient(a) ==
    LET clauses == name_clause(a) IN
    IF Truthy(Get(a, "country")) /\ a["country"].k = "str"
          /\ a["country"].v \in DOMAIN countries_map
    THEN [q |-> Join(sAnd, Append(clauses,
                   sCountryPrefix \o countries_map[a["country"].v] \o sQuote)),
          exc |-> "none"]
    ELSE [q |-> Join(sAnd, Append(clauses, sCountryIT)), exc |-> "none"]

\* build_query without the else branch that defaults the country
build_query_nodefault(a) ==
    LET clauses == name_clause(a) IN
    IF Truthy(Get(a, "country"))
    THEN LET country == a["country"] IN
         IF country.k # "str" THEN [q |-> NoQuery, exc |-> "TypeError"]
         ELSE IF country.v \in DOMAIN countries_map
         THEN [q |-> Join(sAnd, Append(clauses,
                        sCountryPrefix \o countries_map[country.v] \o sQuote)),
               exc |-> "none"]
         ELSE [q |-> NoQuery, exc |-> "KeyError"]
    ELSE [q |-> Join(sAnd, clauses), exc |-> "none"]

build_query(a) ==
    LET clauses == name_clause(a) IN
    IF Truthy(Get(a, "country"))
    THEN LET country == a["country"] IN
         IF country.k # "str" THEN [q |-> NoQuery, exc |-> "TypeError"]
         ELSE IF country.v \in DOMAIN countries_map
         THEN [q |-> Join(sAnd, Append(clauses,
                        sCountryPrefix \o countries_map[country.v] \o sQuote)),
               exc |-> "none"]
         ELSE [q |-> NoQuery, exc |-> "KeyError"]
    ELSE [q |-> Join(sAnd, Append(clauses, sCountryIT)), exc |-> "none"]

(* ------------------------ update_artist_from_mb ------------------------ *)
IsEmptyValue(x) == x \in {None, Str(<<>>), List(<<>>)}

\* set_field without the test of the current value
set_field_always(a, ow, key, value) ==
    IF value = None THEN a ELSE Put(a, key, value)

\* set_field without the test `value is None`
set_field_nonull(a, ow, key, value) ==
    IF ow \/ IsEmptyValue(Get(a, key)) THEN Put(a, key, value) ELSE a

set_field(a, ow, key, value) ==
    IF value = None THEN a
    ELSE IF ow \/ IsEmptyValue(Get(a, key)) THEN Put(a, key, value)
    ELSE a

Raise(st, e) == [a |-> st.a, exc |-> e]
Ok(a) == [a |-> a, exc |-> "none"]

\* basic_fields writing the external key "id" instead of "id_author"
basic_fields_typo(st, m, ow) ==
    Ok(set_field(set_field(st.a, ow, "id", Get(m, "id")),
                 ow, "name", Get(m, "name")))

basic_fields(st, m, ow) ==
    Ok(set_field(set_field(st.a, ow, "id_author", Get(m, "id")),
                 ow, "name", Get(m, "name")))

\* gender_stage comparing without lower()
gender_stage_nolower(st, m, ow) ==
    IF st.exc # "none" THEN st ELSE
    LET gender == Get(m, "gender") IN
    IF ~Truthy(gender) THEN st
    ELSE IF gender.k # "str" THEN Raise(st, "AttributeError")
    ELSE LET normalized == IF gender.v = sMale THEN Str(<<"M">>)
                           ELSE IF gender.v = sFemale THEN Str(<<"F">>)
                           ELSE None
         IN Ok(set_field(st.a, ow, "gender", normalized))

gender_stage(st, m, ow) ==
    IF st.exc # "none" THEN st ELSE
    LET gender == Get(m, "gender") IN
    IF ~Truthy(gender) THEN st
    ELSE IF gender.k # "str" THEN Raise(st, "AttributeError")
    ELSE LET normalized == IF Lower(gender.v) = sMale THEN Str(<<"M">>)
                           ELSE IF Lower(gender.v) = sFemale THEN Str(<<"F">>)
                           ELSE None
         IN Ok(set_field(st.a, ow, "gender", normalized))

\* life_span_stage without the test of the "false" sentinel
life_span_stage_nosentinel(st, m, ow) ==
    IF st.exc # "none" THEN st ELSE
    LET ls == GetOr(m, "life-span", Dict(EmptyDict)) IN
    IF ls.k # "dict" THEN Raise(st, "AttributeError")
    ELSE LET a1 == set_field(st.a, ow, "birth_date", Get(ls.v, "begin"))
             a2 == set_field(a1, ow, "active_start", Get(ls.v, "begin"))
         IN Ok(set_field(a2, ow, "active_end", Get(ls.v, "ended")))

life_span_stage(st, m, ow) ==
    IF st.exc # "none" THEN st ELSE
    LET ls == GetOr(m, "life-span", Dict(EmptyDict)) IN
    IF ls.k # "dict" THEN Raise(st, "AttributeError")
    ELSE LET a1 == set_field(st.a, ow, "birth_date", Get(ls.v, "begin"))
             a2 == set_field(a1, ow, "active_start", Get(ls.v, "begin"))
             ended == Get(ls.v, "ended")
         IN IF ended \notin {Str(sFalse), PyFalse, None}
            THEN Ok(set_field(a2, ow, "active_end", ended))
            ELSE Ok(a2)

area_stage(st, m, ow) ==
    IF st.exc # "none" THEN st ELSE
    IF "area" \in DOMAIN m
    THEN IF m["area"].k # "dict" THEN Raise(st, "AttributeError")
         ELSE Ok(set_field(st.a, ow, "country", Get(m["area"].v, "name")))
    ELSE st

begin_area_stage(st, m, ow) ==
    IF st.exc # "none" THEN st ELSE
    IF "begin-area" \in DOMAIN m
    THEN IF m["begin-area"].k # "dict" THEN Raise(st, "AttributeError")
         ELSE Ok(set_field(st.a, ow, "birth_place", Get(m["begin-area"].v, "name")))
    ELSE st

\* tags_stage adding the tags to a description that is already there
tags_stage_append(st, m, ow) ==
    IF st.exc # "none" THEN st ELSE
    IF "tag-list" \in DOMAIN m
    THEN LET tl == m["tag-list"] IN
         IF tl.k # "list" THEN Raise(st, "TypeError")
         ELSE IF \E i \in 1..Len(tl.v) : "name" \notin DOMAIN tl.v[i].v
         THEN Raise(st, "KeyError")
         ELSE LET tags == [i \in 1..Len(tl.v) |-> tl.v[i].v["name"].v]
                  old == Get(st.a, "description")
              IN IF tags = <<>> THEN st
                 ELSE IF old.k = "str" /\ old.v # <<>>
                 THEN Ok(Put(st.a, "description",
                            Str(old.v \o sCommaSpace \o Join(sCommaSpace, tags))))
                 ELSE Ok(set_field(st.a, ow, "description", Str(Join(sCommaSpace, tags))))
    ELSE st

tags_stage(st, m, ow) ==
    IF st.exc # "none" THEN st ELSE
    IF "tag-list" \in DOMAIN m
    THEN LET tl == m["tag-list"] IN
         IF tl.k # "list" THEN Raise(st, "TypeError")
         ELSE IF \E i \in 1..Len(tl.v) : "name" \notin DOMAIN tl.v[i].v
         THEN Raise(st, "KeyError")
         ELSE LET tags == [i \in 1..Len(tl.v) |-> tl.v[i].v["name"]] IN
              IF tags = <<>> THEN st
              ELSE IF \E i \in 1..Len(tags) : tags[i].k # "str"
              THEN Raise(st, "TypeError")
              ELSE Ok(set_field(st.a, ow, "description",
                        Str(Join(sCommaSpace, [i \in 1..Len(tags) |-> tags[i].v]))))
    ELSE st

RECURSIVE alias_loop(_, _, _)
alias_loop(st, aliases, ow) ==
    IF st.exc # "none" \/ aliases = <<>> THEN st
    ELSE LET locale == GetOr(Head(aliases).v, "locale", Str(<<>>)) IN
         IF locale.k # "str" THEN Raise(st, "AttributeError")
         ELSE alias_loop(
                IF StartsWith(locale.v, <<"i","t">>)
                THEN Ok(set_field(st.a, ow, "nationality", Str(sItalia)))
                ELSE st,
                Tail(aliases), ow)

alias_stage(st, m, ow) ==
    IF st.exc # "none" THEN st ELSE
    LET al == GetOr(m, "alias-list", List(<<>>)) IN
    IF al.k # "list" THEN Raise(st, "TypeError")
    ELSE alias_loop(st, al.v, ow)

update_artist_from_mb(a, m, ow) ==
    alias_stage(
      tags_stage(
        begin_area_stage(
          area_stage(
            life_span_stage(
              gender_stage(
                basic_fields(Ok(a), m, ow), m, ow), m, ow), m, ow), m, ow), m, ow), m, ow)

(* ------------------------------- inputs -------------------------------- *)
sVerdi == <<"V","e","r","d","i">>
sOld == <<"o","l","d">>
sFrance == <<"F","r","a","n","c","e">>
sRoma == <<"R","o","m","a">>
sOpera == <<"o","p","e","r","a">>
s1990 == <<"1","9","9","0">>
s2020 == <<"2","0","2","0">>

TargetKeys == {"id_author", "name", "gender", "birth_date", "active_start",
               "active_end", "country", "birth_place", "description",
               "nationality"}
OtherKey == "genre"
LocalKeys == TargetKeys \cup {OtherKey}

\* the values that count as empty
BlankValues == {None, Str(<<>>), List(<<>>)}

\* a record that knows some of the fields
PartialRecord ==
    [id_author |-> Str(sOld), name |-> Str(sOld), gender |-> Str(sOld),
     active_start |-> Str(sOld), active_end |-> Str(sOld),
     country |-> Str(sItalia), genre |-> Str(sOld)]

\* local records before the first call: {}, the records that hold one empty
\* value in every field, and a partly filled one
LocalRecords ==
    {EmptyDict, PartialRecord} \cup {[key \in LocalKeys |-> x] : x \in BlankValues}

\* dicts over `keys` with each key missing or holding one of vals[key]
RECURSIVE DictsOver(_, _)
DictsOver(keys, vals) ==
    IF keys = {} THEN {EmptyDict}
    ELSE LET key == CHOOSE x \in keys : TRUE
             rest == DictsOver(keys \ {key}, vals)
         IN rest \cup {(key :> x) @@ d : x \in vals[key], d \in rest}

\* lists of at most n entries
RECURSIVE ListsOf(_, _)
ListsOf(entries, n) ==
    IF n = 0 THEN {<<>>}
    ELSE LET shorter == ListsOf(entries, n - 1)
         IN shorter \cup {Append(l, e) : l \in shorter, e \in entries}

LifeSpans ==
    {None, Dict(EmptyDict), Dict([begin |-> Str(s1990)])}
    \cup {Dict([begin |-> Str(s1990), ended |-> e]) :
             e \in {Str(sFalse), PyFalse, Str(s2020)}}
Areas == {None, Dict(EmptyDict), Dict([name |-> Str(sItalia)]),
          Dict([name |-> Str(sFrance)])}
BeginAreas == {Dict(EmptyDict), Dict([name |-> Str(sRoma)])}
TagEntries == {Dict(EmptyDict), Dict([name |-> Str(sOpera)])}
AliasEntries == {Dict(EmptyDict), Dict([locale |-> Str(<<"i","t","-","I","T">>)]),
                 Dict([locale |-> Str(<<"e","n">>)])}

MbKeys == {"id", "name", "gender", "life-span", "area", "begin-area",
           "tag-list", "alias-list"}

MbValues ==
    ("id" :> {None, Str(<<"m","b","1">>)}) @@
    ("name" :> {Str(<<>>), Str(sVerdi)}) @@
    ("gender" :> {Str(<<>>), Str(<<"M","a","l","e">>),
                  Str(<<"F","E","M","A","L","E">>),
                  Str(<<"O","t","h","e","r">>)}) @@
    ("life-span" :> LifeSpans) @@
    ("area" :> Areas) @@
    ("begin-area" :> BeginAreas) @@
    ("tag-list" :> {List(l) : l \in ListsOf(TagEntries, MaxList)}) @@
    ("alias-list" :> {List(l) : l \in ListsOf(AliasEntries, MaxList)})

\* the records of at most n keys the search collaborator may return
ExternalRecords(n) ==
    UNION {DictsOver(K, MbValues) : K \in {S \in SUBSET MbKeys : Cardinality(S) <= n}}

RecordsUpTo == [n \in 0..MaxKeys |-> ExternalRecords(n)]

(* ---------------------------- state machine ---------------------------- *)
Init ==
    /\ artist \in LocalRecords
    /\ prev = artist
    /\ base = artist
    /\ mb = EmptyDict
    /\ overwrite = FALSE
    /\ exc = "none"
    /\ query = NoQuery
    /\ op = "init"
    /\ repeat = FALSE
    /\ calls = 0
    /\ received = 0

\* one call query = build_query(artist)
BuildQuery ==
    /\ op # "build_query"
    /\ LET r == build_query(artist) IN
       /\ query' = r.q
       /\ exc' = r.exc
    /\ op' = "build_query"
    /\ UNCHANGED <<artist, prev, base, mb, overwrite, repeat, calls, received>>

\* one call update_artist_from_mb(artist, m, ow), made by the caller after it
\* built the query and searched with it; the dict is mutated in place, so
\* what was written before an exception stays written
Merge(m, ow) ==
    /\ op = "build_query"
    /\ calls < MaxCalls
    /\ LET r == update_artist_from_mb(artist, m, ow) IN
       /\ artist' = r.a
       /\ exc' = r.exc
       /\ base' = IF ow THEN r.a ELSE base
    /\ prev' = artist
    /\ mb' = m
    /\ overwrite' = ow
    /\ repeat' = (calls > 0 /\ m = mb /\ ~ow /\ ~overwrite)
    /\ query' = NoQuery
    /\ op' = "merge"
    /\ calls' = calls + 1

\* the caller merges a record the search returned
UpdateArtistFromMb ==
    \E m \in RecordsUpTo[MaxKeys - received], ow \in BOOLEAN :
        /\ Merge(m, ow)
        /\ received' = received + Cardinality(DOMAIN m)

\* the caller merges the record of the last merge once more, with the
\* default overwrite=False
UpdateAgain ==
    /\ calls > 0
    /\ Merge(mb, FALSE)
    /\ UNCHANGED received

Next == BuildQuery \/ UpdateArtistFromMb \/ UpdateAgain

Spec == Init /\ [][Next]_vars

(* ------------------------------- claims -------------------------------- *)
\* null, the empty string or an empty collection
Blank(x) == x = None \/ x = Str(<<>>) \/ x = List(<<>>)

\* present: the key is there and its value is not null
Present(d, key) == key \in DOMAIN d /\ d[key] # None

NonEmptyStr(x) == x.k = "str" /\ Len(x.v) > 0

\* the last merge changed field f of the local record
Differs(f) ==
    \/ (f \in DOMAIN artist) # (f \in DOMAIN prev)
    \/ f \in DOMAIN artist /\ f \in DOMAIN prev /\ artist[f] # prev[f]

\* field f is what the field-set policy makes of candidate c
Applied(f, c) ==
    IF c # None /\ (overwrite \/ Blank(Get(prev, f)))
    THEN f \in DOMAIN artist /\ artist[f] = c
    ELSE ~Differs(f)

SubDict(m, key) ==
    IF key \in DOMAIN m /\ m[key].k = "dict" THEN m[key].v ELSE EmptyDict

SubList(m, key) ==
    IF key \in DOMAIN m /\ m[key].k = "list" THEN m[key].v ELSE <<>>

SameLetters(s, t) ==
    Len(s) = Len(t) /\ \A i \in 1..Len(s) : LowerChar(s[i]) = LowerChar(t[i])

GenderCandidate(m) ==
    LET g == Get(m, "gender") IN
    IF g.k = "str" /\ SameLetters(g.v, sMale) THEN Str(<<"M">>)
    ELSE IF g.k = "str" /\ SameLetters(g.v, sFemale) THEN Str(<<"F">>)
    ELSE None

EndedIsSentinel(m) ==
    LET e == Get(SubDict(m, "life-span"), "ended") IN
    e = Str(sFalse) \/ e = PyFalse \/ e = None

AllNamed(tags) ==
    \A i \in 1..Len(tags) : Present(tags[i].v, "name") /\ tags[i].v["name"].k = "str"

RECURSIVE CommaJoined(_)
CommaJoined(tags) ==
    IF Len(tags) = 0 THEN <<>>
    ELSE IF Len(tags) = 1 THEN tags[1].v["name"].v
    ELSE CommaJoined(SubSeq(tags, 1, Len(tags) - 1))
            \o <<",", " ">> \o tags[Len(tags)].v["name"].v

HasItalianAlias(m) ==
    \E i \in 1..Len(SubList(m, "alias-list")) :
        LET a == SubList(m, "alias-list")[i].v IN
        /\ Present(a, "locale")
        /\ a["locale"].k = "str"
        /\ Len(a["locale"].v) >= 2
        /\ a["locale"].v[1] = "i"
        /\ a["locale"].v[2] = "t"

\* the candidate the table of the field-set policy derives for field f
Candidate(m, f) ==
    CASE f = "id_author" -> Get(m, "id")
      [] f = "name" -> Get(m, "name")
      [] f = "gender" -> GenderCandidate(m)
      [] f = "birth_date" -> Get(SubDict(m, "life-span"), "begin")
      [] f = "active_start" -> Get(SubDict(m, "life-span"), "begin")
      [] f = "active_end" ->
            IF EndedIsSentinel(m) THEN None
            ELSE Get(SubDict(m, "life-span"), "ended")
      [] f = "country" -> Get(SubDict(m, "area"), "name")
      [] f = "birth_place" -> Get(SubDict(m, "begin-area"), "name")
      [] f = "description" ->
            IF SubList(m, "tag-list") # <<>> /\ AllNamed(SubList(m, "tag-list"))
            THEN Str(CommaJoined(SubList(m, "tag-list")))
            ELSE None
      [] f = "nationality" -> IF HasItalianAlias(m) THEN Str(sItalia) ELSE None

\* the external source of field f is present and not null
SourcePresent(m, f) ==
    CASE f = "id_author" -> Present(m, "id")
      [] f = "name" -> Present(m, "name")
      [] f = "gender" -> Present(m, "gender")
      [] f \in {"birth_date", "active_start"} -> Present(SubDict(m, "life-span"), "begin")
      [] f = "active_end" -> Present(SubDict(m, "life-span"), "ended")
      [] f = "country" -> Present(SubDict(m, "area"), "name")
      [] f = "birth_place" -> Present(SubDict(m, "begin-area"), "name")
      [] f = "description" ->
            \E i \in 1..Len(SubList(m, "tag-list")) :
                Present(SubList(m, "tag-list")[i].v, "name")
      [] f = "nationality" ->
            \E i \in 1..Len(SubList(m, "alias-list")) :
                Present(SubList(m, "alias-list")[i].v, "locale")
      [] OTHER -> FALSE

\* C1 as claimed: after a merge every target field holds its candidate if the
\* candidate is not null and (overwrite is set or the field was null, "" or
\* empty), and its previous value otherwise.
C1_FieldSetPolicy ==
    op = "merge" => \A f \in TargetKeys : Applied(f, Candidate(mb, f))

\* C2: a field that holds a non-empty value keeps it through a merge with
\* overwrite=False, and through every run of such merges, whatever the
\* external records hold.
C2_NonEmptyKept ==
    /\ (op = "merge" /\ ~overwrite) =>
          \A f \in LocalKeys : ~Blank(Get(prev, f)) => ~Differs(f)
    /\ \A f \in DOMAIN base :
          ~Blank(base[f]) => f \in DOMAIN artist /\ artist[f] = base[f]

C2_Witness ==
    /\ op = "merge" /\ calls = 2 /\ ~overwrite /\ exc = "none"
    /\ base = PartialRecord /\ prev # base
    /\ Get(mb, "name") = Str(sVerdi)
    /\ artist = prev

\* C3: merging the same external record a second time with overwrite=False
\* leaves the local record as the first merge left it.
C3_Idempotent == repeat => artist = prev

C3_Witness == repeat /\ prev # base /\ exc = "none" /\ Cardinality(DOMAIN mb) > 0

\* C4: a field that a merge changed has an external source that is present
\* and not null, and the change replaced a value under overwrite=True or
\* filled a null/empty field.
C4_NoValueFromNothing ==
    op = "merge" =>
        \A f \in DOMAIN artist \cup DOMAIN prev :
            Differs(f) =>
                /\ SourcePresent(mb, f)
                /\ f \in DOMAIN artist /\ artist[f] # None
                /\ overwrite \/ Blank(Get(prev, f))

C4_Witness ==
    /\ op = "merge" /\ overwrite
    /\ Get(mb, "id") = None /\ "id_author" \in DOMAIN prev /\ ~Differs("id_author")
    /\ Differs("name") /\ ~Blank(prev["name"])

\* C5 as claimed: build_query raises the key-lookup error and returns nothing
\* whenever country is present and is no key of countries_map.
C5_PresentUnmappedFails ==
    (op = "build_query" /\ Present(artist, "country")
        /\ ~(artist["country"].k = "str" /\ artist["country"].v \in {sItalia}))
    => (exc = "KeyError" /\ query = NoQuery)

\* C5 amended: build_query raises the key-lookup error and returns nothing
\* whenever country is a non-empty string that is no key of countries_map; a
\* country that is present but empty ("" or []) is defaulted to country:"IT"
\* like a missing one.
C5_NonEmptyUnmappedFails ==
    op = "build_query" =>
        /\ (NonEmptyStr(Get(artist, "country")) /\ Get(artist, "country").v # sItalia)
              => (exc = "KeyError" /\ query = NoQuery)
        /\ Blank(Get(artist, "country")) =>
              (exc = "none" /\ Len(query) >= Len(sCountryIT)
                /\ SubSeq(query, Len(query) - Len(sCountryIT) + 1, Len(query)) = sCountryIT)

C5_Witness ==
    /\ op = "build_query" /\ calls = 1
    /\ Get(artist, "country") = Str(sFrance)
    /\ exc = "KeyError" /\ query = NoQuery

QName(x) == <<"n","a","m","e",":","\"">> \o x \o <<"\"">>
QCountry(x) == <<"c","o","u","n","t","r","y",":","\"">> \o x \o <<"\"">>
QAnd(x, y) == x \o <<" ","A","N","D"," ">> \o y

\* C6 as claimed: a query that build_query returns starts with a name clause
\* iff name is present, and ends with the one country clause, which carries
\* the code of the table when country is present and IT when it is absent.
C6_PresentClauses ==
    (op = "build_query" /\ exc = "none") =>
        LET cc == IF Present(artist, "country")
                  THEN IF artist["country"] = Str(sItalia) THEN QCountry(sIT)
                       ELSE <<>>
                  ELSE QCountry(sIT)
        IN /\ query # <<>>
           /\ IF Present(artist, "name")
              THEN query = QAnd(QName(artist["name"].v), cc)
              ELSE query = cc

\* C6 amended: a query that build_query returns is the name clause, iff name
\* is a non-empty string, then " AND ", then the one country clause: the
\* code of the table if country is a non-empty string, IT if country is
\* missing, null or empty; it is never the empty string.
C6_NonEmptyClauses ==
    (op = "build_query" /\ exc = "none") =>
        LET country == Get(artist, "country")
            cc == IF NonEmptyStr(country) /\ country.v = sItalia THEN QCountry(sIT)
                  ELSE IF NonEmptyStr(country) THEN <<>>
                  ELSE QCountry(sIT)
        IN /\ query # <<>>
           /\ IF NonEmptyStr(Get(artist, "name"))
              THEN query = QAnd(QName(artist["name"].v), cc)
              ELSE query = cc

C6_Witness ==
    /\ op = "build_query" /\ exc = "none" /\ calls = 1
    /\ Get(artist, "name") = Str(sVerdi)
    /\ Get(artist, "country") = Str(sItalia)
    /\ query = <<"n","a","m","e",":","\"","V","e","r","d","i","\""," ","A","N","D"," ",
                 "c","o","u","n","t","r","y",":","\"","I","T","\"">>

\* C7 as claimed: a merge of an external record with keys missing or null at
\* any level returns without raising, and the fields whose source is missing
\* are left untouched.
C7_Permissive ==
    op = "merge" =>
        /\ exc = "none"
        /\ \A f \in TargetKeys : ~SourcePresent(mb, f) => ~Differs(f)

\* C8: a merge removes no key of the local record and neither adds nor
\* changes a key outside the ten target fields.
C8_OnlyTargetFields ==
    op = "merge" =>
        /\ DOMAIN prev \subseteq DOMAIN artist
        /\ \A f \in DOMAIN artist \ TargetKeys : f \in DOMAIN prev /\ artist[f] = prev[f]

C8_Witness ==
    /\ op = "merge" /\ overwrite /\ exc = "none"
    /\ OtherKey \in DOMAIN prev /\ ~Blank(prev[OtherKey])
    /\ Cardinality({f \in TargetKeys : Differs(f)}) >= 3

\* C9: a merge leaves active_end as it was when life-span.ended is "false",
\* False or missing, and applies the field-set policy to it with ended as the
\* candidate otherwise; birth_date and active_start get life-span.begin under
\* the field-set policy either way.
C9_EndedSentinel ==
    op = "merge" =>
        LET ls == SubDict(mb, "life-span")
            ended == Get(ls, "ended")
        IN /\ ended \in {Str(sFalse), PyFalse, None} => ~Differs("active_end")
           /\ ended \notin {Str(sFalse), PyFalse, None} => Applied("active_end", ended)
           /\ Applied("birth_date", Get(ls, "begin"))
           /\ Applied("active_start", Get(ls, "begin"))

C9_Witness ==
    /\ op = "merge" /\ overwrite
    /\ Get(SubDict(mb, "life-span"), "ended") = Str(sFalse)
    /\ Get(SubDict(mb, "life-span"), "begin") = Str(s1990)
    /\ Get(prev, "active_end") = Str(sOld) /\ Get(artist, "active_end") = Str(sOld)
    /\ Get(prev, "active_start") = Str(sOld) /\ Get(artist, "active_start") = Str(s1990)

\* C10: a merge applies the field-set policy to gender with candidate "M" for
\* an external gender that is "male" in any letter case and "F" for one that
\* is "female" in any letter case; with any other external gender, or none,
\* gender is left as it was, also under overwrite=True.
C10_GenderNormalized ==
    op = "merge" =>
        LET g == Get(mb, "gender") IN
        IF g.k = "str" /\ SameLetters(g.v, sMale) THEN Applied("gender", Str(<<"M">>))
        ELSE IF g.k = "str" /\ SameLetters(g.v, sFemale) THEN Applied("gender", Str(<<"F">>))
        ELSE ~Differs("gender")

C10_Witness ==
    /\ op = "merge" /\ overwrite /\ calls = 2
    /\ Get(mb, "gender") = Str(<<"O","t","h","e","r">>)
    /\ Get(prev, "gender") = Str(<<"F">>) /\ Get(artist, "gender") = Str(<<"F">>)

====
